---- MODULE Spec2Model ----
(***************************************************************************)
(* Model of the BioScriptor web search aggregation scripts:                *)
(*   src/server/services/scrapy-search.py  (WebSearchSpider,               *)
(*                                          run_scrapy_search, main)       *)
(*   src/ScrapedDuck/main.py               (search_web_simple, main)       *)
(*                                                                         *)
(* Strings are sequences of one-character strings.  A url is a sequence    *)
(* of tokens; the tokens "http", "duckduckgo.com", "startpage.com" and     *)
(* "javascript:" stand for the substrings the code or the documented       *)
(* algorithm tests for.                                                    *)
(***************************************************************************)
EXTENDS Integers, Sequences, FiniteSets, TLC

VARIABLES
    impl,          \* which script runs: "scrapy" or "simple"
    has_query,     \* sys.argv carries a query
    max_results,   \* the max_results argument
    pc,            \* position of the run
    results,       \* spider.results / the local results list
    requests,      \* provider requests issued so far, in order
    outstanding,   \* provider requests without a response yet
    fetches,       \* completed fetches: provider, outcome, whether parsed
    lastResponse,  \* the response handed to the last parse
    returned,      \* the list returned by run_scrapy_search / search_web_simple
    envelope,      \* the document printed by main
    exit_status,   \* the process exit status
    exc,           \* the exception that escaped the last handler
    calls,         \* earlier aggregation calls of this process, as they ended
    reactor_started  \* the process-wide Twisted reactor has been run

vars == <<impl, has_query, max_results, pc, results, requests, outstanding,
          fetches, lastResponse, returned, envelope, exit_status, exc, calls,
          reactor_started>>

----------------------------------------------------------------------------
(* Bounds *)

MaxResults == 2
MaxContainers == 2
MaxCalls == 2

(* Program constants *)

TitleCap == 100
SnippetCap == 200
FallbackMinText == 10

----------------------------------------------------------------------------
(* Python values *)

None == <<"<None>">>
NoEnvelope == [none |-> TRUE]
NoResponse == [provider |-> "", status |-> 0, body |-> <<>>]

Min(a, b) == IF a <= b THEN a ELSE b
Max(a, b) == IF a >= b THEN a ELSE b

\* seq[:k]
PySlice(seq, k) ==
    IF k >= 0 THEN SubSeq(seq, 1, Min(k, Len(seq)))
    ELSE SubSeq(seq, 1, Max(Len(seq) + k, 0))

\* bool(x) of an optional string
Truthy(x) == x # None /\ x # <<>>

Whitespace == {" ", "\n"}

RECURSIVE lstrip(_)
lstrip(s) ==
    IF s = <<>> THEN <<>>
    ELSE IF Head(s) \in Whitespace THEN lstrip(Tail(s)) ELSE s

RECURSIVE rstrip(_)
rstrip(s) ==
    IF s = <<>> THEN <<>>
    ELSE IF s[Len(s)] \in Whitespace THEN rstrip(SubSeq(s, 1, Len(s) - 1)) ELSE s

\* s.strip()
strip(s) == rstrip(lstrip(s))

\* re.sub(r'\s+', ' ', s): every maximal whitespace run becomes one space.
\* Computed by halves (a run that spans the cut is merged), so that the
\* evaluation depth stays logarithmic in the length of s.
RECURSIVE collapse(_)
collapse(s) ==
    IF s = <<>> THEN <<>>
    ELSE IF Len(s) = 1 THEN (IF s[1] \in Whitespace THEN <<" ">> ELSE s)
    ELSE LET m == Len(s) \div 2
             l == collapse(SubSeq(s, 1, m))
             r == collapse(SubSeq(s, m + 1, Len(s)))
         IN  IF l[Len(l)] = " " /\ r[1] = " " THEN l \o Tail(r) ELSE l \o r

\* sub in s
Contains(s, sub) ==
    \E i \in 1..(Len(s) - Len(sub) + 1) : SubSeq(s, i, i + Len(sub) - 1) = sub

\* s.startswith(prefix)
StartsWith(s, prefix) ==
    Len(s) >= Len(prefix) /\ SubSeq(s, 1, Len(prefix)) = prefix

DDG_DOMAIN == <<"duckduckgo.com">>
STARTPAGE_DOMAIN == <<"startpage.com">>
SCRIPT_SCHEME == <<"javascript:">>
HTTP == <<"http">>

----------------------------------------------------------------------------
(* Inputs: response bodies *)

U1 == <<"http", "/", "1">>
U2 == <<"http", "/", "2">>
USelf == <<"http", "duckduckgo.com", "/", "y">>
TitleA == <<"a">>
TitleLong == [i \in 1..(FallbackMinText + 1) |-> "t"]
Snip == <<"s">>
USelfSp == <<"http", "startpage.com", "/", "z">>
UBlank == <<" ">>
UScript == <<"javascript:", "v">>
\* a title whose character at the title cap is a space
TitleCut == [i \in 1..(TitleCap + 1) |-> IF i = TitleCap THEN " " ELSE "c"]
SnipBlank == <<" ">>

Div(t, u, s) == [kind |-> "div", title |-> t, url |-> u, snippet |-> s]
Anchor(t, u) == [kind |-> "a", title |-> t, url |-> u, snippet |-> None]

\* result containers of a markup response
Containers ==
    { Div(TitleA, U1, Snip),
      Div(TitleLong, U2, None),
      Div(TitleA, USelf, None),
      Div(<<" ">>, U2, Snip),
      Div(None, None, None),
      Div(TitleCut, USelfSp, SnipBlank),
      Div(TitleA, UBlank, None),
      Div(TitleA, UScript, None) }

\* anchors outside any result container
Anchors == { Anchor(TitleLong, U1), Anchor(TitleA, U2) }

SeqsUpTo(S, n) == UNION { [1..k -> S] : k \in 0..n }

MarkupBodies == SeqsUpTo(Containers, MaxContainers)
SimpleBodies == SeqsUpTo(Containers \cup Anchors, MaxContainers)

Statuses == {200, 404, 500}
IsSuccess(status) == status >= 200 /\ status < 300

----------------------------------------------------------------------------
(* Records *)

Record(t, u, s, src) == [title |-> t, url |-> u, snippet |-> s, source |-> src]

\* response.css('div.result') / soup.find_all('div', class_='result')
Divs(body) == SelectSeq(body, LAMBDA n : n.kind = "div")

\* the records one DuckDuckGo container appends (none or one)
DdgContainer(c) ==
    IF Truthy(c.title) /\ Truthy(c.url)
    THEN LET title == collapse(strip(c.title))
             url == strip(c.url)
             snippet == collapse(strip(IF Truthy(c.snippet) THEN c.snippet ELSE title))
         IN  IF ~Contains(url, DDG_DOMAIN) /\ title # <<>>
             THEN << Record(PySlice(title, TitleCap), url,
                            PySlice(snippet, SnippetCap), "DuckDuckGo") >>
             ELSE <<>>
    ELSE <<>>

\* the records one Startpage container appends (none or one)
StartpageContainer(c) ==
    IF Truthy(c.title) /\ Truthy(c.url)
    THEN LET title == collapse(strip(c.title))
             url == strip(c.url)
             snippet == collapse(strip(IF Truthy(c.snippet) THEN c.snippet ELSE title))
         IN  IF title # <<>>
             THEN << Record(PySlice(title, TitleCap), url,
                            PySlice(snippet, SnippetCap), "Startpage") >>
             ELSE <<>>
    ELSE <<>>

RECURSIVE DdgLoop(_)
DdgLoop(cs) ==
    IF cs = <<>> THEN <<>> ELSE DdgContainer(Head(cs)) \o DdgLoop(Tail(cs))

RECURSIVE StartpageLoop(_)
StartpageLoop(cs) ==
    IF cs = <<>> THEN <<>> ELSE StartpageContainer(Head(cs)) \o StartpageLoop(Tail(cs))

\* DdgVisited with the containers visited last to first
DdgVisitedReversed(body, max) ==
    LET cs == PySlice(Divs(body), max)
    IN  [i \in 1..Len(cs) |-> cs[Len(cs) + 1 - i]]

\* the containers the DuckDuckGo loop visits: results[:self.max_results]
DdgVisited(body, max) == PySlice(Divs(body), max)

\* the containers the Startpage loop visits:
\* results[:self.max_results - len(self.results)]
StartpageVisited(body, max, res) == PySlice(Divs(body), max - Len(res))

\* self.results after parse_duckduckgo's loop
DdgResults(res, body, max) == res \o DdgLoop(DdgVisited(body, max))

\* StartpageResults with the list assigned instead of appended to
StartpageResultsAssigned(res, body, max) ==
    StartpageLoop(StartpageVisited(body, max, res))

\* self.results after parse_startpage's loop
StartpageResults(res, body, max) == res \o StartpageLoop(StartpageVisited(body, max, res))

\* Shortfall with the test dropped: the next provider is always requested
ShortfallAlways(res, max) == TRUE

\* the shortfall test that follows parse_duckduckgo's loop
Shortfall(res, max) == Len(res) < max

----------------------------------------------------------------------------
(* search_web_simple *)

\* the record one result div appends in the first loop (none or one)
SimpleContainer(c) ==
    IF c.title = None /\ c.url = None
    THEN <<>>
    ELSE LET text == strip(IF c.title = None THEN <<>> ELSE c.title)
             url == IF c.url = None THEN <<>> ELSE c.url
             rawsnippet == IF c.snippet = None THEN text ELSE strip(c.snippet)
             title == collapse(text)
             snippet == collapse(rawsnippet)
         IN  IF title # <<>> /\ url # <<>> /\ ~Contains(url, DDG_DOMAIN)
             THEN << Record(PySlice(title, TitleCap), url,
                            PySlice(snippet, SnippetCap), "DuckDuckGo-Simple") >>
             ELSE <<>>

RECURSIVE SimpleLoop(_)
SimpleLoop(cs) ==
    IF cs = <<>> THEN <<>> ELSE SimpleContainer(Head(cs)) \o SimpleLoop(Tail(cs))

\* soup.find_all('a', href=True)
Links(body) == SelectSeq(body, LAMBDA n : n.url # None)

\* the record one link appends in the fallback loop (none or one)
FallbackLink(a) ==
    LET href == a.url
        text == strip(IF a.title = None THEN <<>> ELSE a.title)
    IN  IF StartsWith(href, HTTP) /\ ~Contains(href, DDG_DOMAIN)
           /\ Len(text) > FallbackMinText
        THEN << Record(PySlice(text, TitleCap), href,
                       PySlice(text, SnippetCap), "DuckDuckGo-Fallback") >>
        ELSE <<>>

\* the fallback loop, with its break once max_results records are held
RECURSIVE FallbackLoop(_, _, _)
FallbackLoop(res, links, max) ==
    IF links = <<>> THEN res
    ELSE LET got == FallbackLink(Head(links))
             res2 == res \o got
         IN  IF got # <<>> /\ Len(res2) >= max
             THEN res2
             ELSE FallbackLoop(res2, Tail(links), max)

\* the list search_web_simple holds when its try block ends normally
SimpleResults(body, max) ==
    LET first == SimpleLoop(PySlice(Divs(body), max))
    IN  IF first = <<>>
        THEN FallbackLoop(<<>>, PySlice(Links(body), max), max)
        ELSE first

QueryText == <<"q">>

\* the mock record of search_web_simple's except branch
MockRecord ==
    Record(<<"Search result for: ">> \o QueryText,
           <<"http", "duckduckgo.com", "/", "?q=">> \o QueryText,
           <<"ScrapedDuck search temporarily unavailable. Query: ">> \o QueryText,
           "ScrapedDuck-Mock")

\* the fallback record of run_scrapy_search's except branch
FallbackRecord ==
    Record(<<"Search for: ">> \o QueryText,
           <<"http", "duckduckgo.com", "/", "?q=">> \o QueryText,
           <<"Scrapy search temporarily unavailable. Manual search recommended for: ">>
               \o QueryText,
           "Fallback")

----------------------------------------------------------------------------
(* parse_searx: JSON values and the structured parser *)

JInvalid == [t |-> "invalid"]
JNull == [t |-> "null"]
JNum(n) == [t |-> "num", v |-> n]
JStr(str) == [t |-> "str", v |-> str]
JList(items) == [t |-> "list", v |-> items]
JObj(fields) == [t |-> "obj", v |-> fields]

ResultsKey == <<"r", "e", "s", "u", "l", "t", "s">>

\* bool(j)
JTruthy(j) ==
    CASE j.t = "null" -> FALSE
      [] j.t = "num" -> j.v # 0
      [] j.t = "str" -> j.v # <<>>
      [] j.t = "list" -> j.v # <<>>
      [] OTHER -> DOMAIN j.v # {}

\* result.get(k)
JGet(obj, k) == IF k \in DOMAIN obj.v THEN obj.v[k] ELSE JNull

Outcome(res, e) == [results |-> res, exc |-> e]

\* one pass of parse_searx's loop body over the entry e
SearxEntry(res, e) ==
    IF e.t # "obj" THEN Outcome(res, "AttributeError")
    ELSE LET title == JGet(e, "title")
             url == JGet(e, "url")
             content == IF "content" \in DOMAIN e.v THEN e.v["content"] ELSE title
         IN  IF JTruthy(title) /\ JTruthy(url)
             THEN IF title.t \notin {"str", "list"} THEN Outcome(res, "TypeError")
                  ELSE IF content.t \notin {"str", "list"} THEN Outcome(res, "TypeError")
                  ELSE Outcome(Append(res, Record(PySlice(title.v, TitleCap),
                                                  IF url.t = "str" THEN url.v ELSE url,
                                                  PySlice(content.v, SnippetCap),
                                                  "SearX")), "")
             ELSE Outcome(res, "")

RECURSIVE SearxLoop(_, _)
SearxLoop(res, entries) ==
    IF entries = <<>> THEN Outcome(res, "")
    ELSE LET o == SearxEntry(res, Head(entries))
         IN  IF o.exc # "" THEN o ELSE SearxLoop(o.results, Tail(entries))

\* self.results and the exception that leaves parse_searx, if any
SearxParse(res, data, max) ==
    CASE data.t = "invalid" -> Outcome(res, "")   \* JSONDecodeError is caught
      [] data.t \in {"null", "num"} -> Outcome(res, "TypeError")
      [] data.t = "str" ->
            IF Contains(data.v, ResultsKey) THEN Outcome(res, "TypeError")
            ELSE Outcome(res, "")
      [] data.t = "list" ->
            IF \E i \in 1..Len(data.v) : data.v[i].t = "str" /\ data.v[i].v = ResultsKey
            THEN Outcome(res, "TypeError")
            ELSE Outcome(res, "")
      [] OTHER ->
            IF "results" \notin DOMAIN data.v THEN Outcome(res, "")
            ELSE LET rs == data.v["results"]
                 IN  CASE rs.t \in {"null", "num"} -> Outcome(res, "TypeError")
                       [] rs.t = "str" ->
                             IF PySlice(rs.v, max - Len(res)) = <<>>
                             THEN Outcome(res, "")
                             ELSE Outcome(res, "AttributeError")
                       [] OTHER -> SearxLoop(res, PySlice(rs.v, max - Len(res)))

SearxEntries ==
    { JObj([title |-> JStr(TitleA), url |-> JStr(U1), content |-> JStr(Snip)]),
      JObj([title |-> JStr(TitleLong), url |-> JStr(U2)]),
      JObj([title |-> JStr(TitleA), url |-> JStr(U1), content |-> JNull]),
      JObj([title |-> JNum(5), url |-> JStr(U2)]),
      JObj([url |-> JStr(U1)]),
      JNum(7) }

SearxBodies ==
    { JInvalid, JNull, JNum(3), JStr(<<"x">>), JList(<<>>),
      JObj([answers |-> JList(<<>>)]),
      JObj([results |-> JNull]),
      JObj([results |-> JStr(<<"x">>)]) }
    \cup { JObj([results |-> JList(es)]) : es \in SeqsUpTo(SearxEntries, MaxContainers) }

----------------------------------------------------------------------------
(* State *)

Fetch(p, failed, status, parsed) ==
    [provider |-> p, failed |-> failed, status |-> status, parsed |-> parsed]

Response(p, status, body) == [provider |-> p, status |-> status, body |-> body]

NotExited == -1

Init ==
    /\ impl \in {"scrapy", "simple"}
    /\ has_query \in BOOLEAN
    /\ max_results \in 0..MaxResults
    /\ pc = "main"
    /\ results = <<>>
    /\ requests = <<>>
    /\ outstanding = {}
    /\ fetches = <<>>
    /\ lastResponse = NoResponse
    /\ returned = <<>>
    /\ envelope = NoEnvelope
    /\ exit_status = NotExited
    /\ exc = ""
    /\ calls = <<>>
    /\ reactor_started = FALSE

----------------------------------------------------------------------------
(* main: the argument check of both scripts *)

main_args ==
    /\ pc = "main"
    /\ IF has_query
       THEN /\ pc' = "call"
            /\ UNCHANGED <<envelope, exit_status>>
       ELSE /\ envelope' = [error |-> "No search query provided"]
            /\ exit_status' = 1
            /\ pc' = "exit"
    /\ UNCHANGED <<calls, reactor_started,
                   impl, has_query, max_results, results, requests, outstanding,
                   fetches, lastResponse, returned, exc>>

----------------------------------------------------------------------------
(* scrapy-search.py *)

\* run_scrapy_search raises before its try block is entered (settings,
\* CrawlerProcess or Crawler construction); the exception reaches main
run_scrapy_search_raises ==
    /\ impl = "scrapy"
    /\ pc = "call"
    /\ exc' = "Exception"
    /\ pc' = "raised"
    /\ UNCHANGED <<calls, reactor_started,
                   impl, has_query, max_results, results, requests, outstanding,
                   fetches, lastResponse, returned, envelope, exit_status>>

\* main's except branch
main_except ==
    /\ pc = "raised"
    /\ envelope' = [error |-> exc, query |-> QueryText, results |-> <<>>,
                    source |-> "Scrapy"]
    /\ exit_status' = 1
    /\ pc' = "exit"
    /\ UNCHANGED <<calls, reactor_started,
                   impl, has_query, max_results, results, requests, outstanding,
                   fetches, lastResponse, returned, exc>>

\* process.crawl / process.start raises inside the try block
crawl_raises ==
    /\ impl = "scrapy"
    /\ pc = "call"
    /\ returned' = << FallbackRecord >>
    /\ pc' = "returned"
    /\ UNCHANGED <<calls, reactor_started,
                   impl, has_query, max_results, results, requests, outstanding,
                   fetches, lastResponse, envelope, exit_status, exc>>

\* process.start() runs the reactor, which a process can run only once;
\* the engine then opens the spider
start_requests ==
    /\ impl = "scrapy"
    /\ pc = "call"
    /\ ~reactor_started
    /\ reactor_started' = TRUE
    /\ pc' = "crawling"
    /\ requests' = Append(requests, "DuckDuckGo")
    /\ outstanding' = outstanding \cup {"DuckDuckGo"}
    /\ UNCHANGED <<calls, impl, has_query, max_results, results, fetches, lastResponse,
                   returned, envelope, exit_status, exc>>

parse_duckduckgo ==
    /\ pc = "crawling"
    /\ "DuckDuckGo" \in outstanding
    /\ \E body \in MarkupBodies, status \in {st \in Statuses : IsSuccess(st)} :
         /\ lastResponse' = Response("DuckDuckGo", status, body)
         /\ fetches' = Append(fetches, Fetch("DuckDuckGo", FALSE, status, TRUE))
         /\ results' = DdgResults(results, body, max_results)
         /\ IF Shortfall(results', max_results)
            THEN \* search_startpage
                 /\ requests' = Append(requests, "Startpage")
                 /\ outstanding' = (outstanding \ {"DuckDuckGo"}) \cup {"Startpage"}
            ELSE /\ outstanding' = outstanding \ {"DuckDuckGo"}
                 /\ UNCHANGED requests
    /\ UNCHANGED <<calls, reactor_started,
                   impl, has_query, max_results, pc, returned, envelope,
                   exit_status, exc>>

parse_startpage ==
    /\ pc = "crawling"
    /\ "Startpage" \in outstanding
    /\ \E body \in MarkupBodies, status \in {st \in Statuses : IsSuccess(st)} :
         /\ lastResponse' = Response("Startpage", status, body)
         /\ fetches' = Append(fetches, Fetch("Startpage", FALSE, status, TRUE))
         /\ results' = StartpageResults(results, body, max_results)
    /\ outstanding' = outstanding \ {"Startpage"}
    /\ UNCHANGED <<calls, reactor_started,
                   impl, has_query, max_results, pc, requests, returned, envelope,
                   exit_status, exc>>

\* a request that ends in a transport failure (status 0) or in a response
\* with a non-success status: no callback runs, no errback is set
download_failed ==
    /\ pc = "crawling"
    /\ \E p \in outstanding :
         /\ \/ fetches' = Append(fetches, Fetch(p, TRUE, 0, FALSE))
            \/ \E status \in {st \in Statuses : ~IsSuccess(st)} :
                 fetches' = Append(fetches, Fetch(p, FALSE, status, FALSE))
         /\ outstanding' = outstanding \ {p}
    /\ UNCHANGED <<calls, reactor_started,
                   impl, has_query, max_results, pc, results, requests,
                   lastResponse, returned, envelope, exit_status, exc>>

\* spider_closed that waits until every entry of search_engines was requested
spider_closed_after_chain ==
    /\ pc = "crawling"
    /\ outstanding = {}
    /\ Len(requests) = 3
    /\ returned' = returned \o results
    /\ pc' = "returned"
    /\ UNCHANGED <<calls, reactor_started,
                   impl, has_query, max_results, results, requests, outstanding,
                   fetches, lastResponse, envelope, exit_status, exc>>

\* the spider_closed signal: collect_results, then run_scrapy_search returns
spider_closed ==
    /\ pc = "crawling"
    /\ outstanding = {}
    /\ returned' = returned \o results
    /\ pc' = "returned"
    /\ UNCHANGED <<calls, reactor_started,
                   impl, has_query, max_results, results, requests, outstanding,
                   fetches, lastResponse, envelope, exit_status, exc>>

----------------------------------------------------------------------------
(* ScrapedDuck/main.py *)

search_web_simple ==
    /\ impl = "simple"
    /\ pc = "call"
    /\ requests' = Append(requests, "DuckDuckGo")
    /\ \/ \* requests.get raises
          /\ fetches' = Append(fetches, Fetch("DuckDuckGo", TRUE, 0, FALSE))
          /\ results' = << MockRecord >>
          /\ UNCHANGED lastResponse
       \/ \E body \in SimpleBodies, status \in Statuses :
            /\ fetches' = Append(fetches, Fetch("DuckDuckGo", FALSE, status, TRUE))
            /\ lastResponse' = Response("DuckDuckGo", status, body)
            /\ results' = SimpleResults(body, max_results)
    /\ returned' = results'
    /\ pc' = "returned"
    /\ UNCHANGED <<calls, reactor_started,
                   impl, has_query, max_results, outstanding, envelope,
                   exit_status, exc>>

----------------------------------------------------------------------------
(* main: the envelope of both scripts *)

SourceLabel == IF impl = "scrapy" THEN "Scrapy" ELSE "ScrapedDuck"

main_output ==
    /\ pc = "returned"
    /\ envelope' = [results |-> returned, query |-> QueryText,
                    total |-> Len(returned), source |-> SourceLabel]
    /\ exit_status' = 0
    /\ pc' = "exit"
    /\ UNCHANGED <<calls, reactor_started,
                   impl, has_query, max_results, results, requests, outstanding,
                   fetches, lastResponse, returned, exc>>

Next ==
    \/ main_args
    \/ run_scrapy_search_raises
    \/ main_except
    \/ crawl_raises
    \/ start_requests
    \/ parse_duckduckgo
    \/ parse_startpage
    \/ download_failed
    \/ spider_closed
    \/ search_web_simple
    \/ main_output

Spec == Init /\ [][Next]_vars

----------------------------------------------------------------------------
(* A process that calls run_scrapy_search / search_web_simple again        *)

\* how the call that has just returned ended
CallRecord ==
    [max_results |-> max_results, returned |-> returned, fetches |-> fetches]

\* the next call: a new spider with self.results = [], new local results, a
\* new CrawlerProcess; the reactor is the one of the process
next_call ==
    /\ pc = "returned"
    /\ Len(calls) + 1 < MaxCalls
    /\ calls' = Append(calls, CallRecord)
    /\ max_results' \in 0..MaxResults
    /\ results' = <<>>
    /\ requests' = <<>>
    /\ outstanding' = {}
    /\ fetches' = <<>>
    /\ lastResponse' = NoResponse
    /\ returned' = <<>>
    /\ pc' = "call"
    /\ UNCHANGED <<reactor_started, impl, has_query, envelope, exit_status, exc>>

NextCalls ==
    \/ Next
    \/ next_call

SpecCalls == Init /\ [][NextCalls]_vars

----------------------------------------------------------------------------
(* The SearX leg: search_searx has yielded its request to a spider whose   *)
(* results hold what the earlier providers left.                           *)

parse_searx ==
    /\ pc = "crawling"
    /\ "SearX" \in outstanding
    /\ \E body \in SearxBodies, status \in {st \in Statuses : IsSuccess(st)} :
         LET o == SearxParse(results, body, max_results)
         IN  /\ lastResponse' = Response("SearX", status, body)
             /\ fetches' = Append(fetches, Fetch("SearX", FALSE, status, TRUE))
             /\ results' = o.results
             /\ exc' = o.exc
    /\ outstanding' = outstanding \ {"SearX"}
    /\ UNCHANGED <<calls, reactor_started,
                   impl, has_query, max_results, pc, requests, returned, envelope,
                   exit_status>>

InitSearx ==
    /\ impl = "scrapy"
    /\ has_query = TRUE
    /\ max_results \in 1..MaxResults
    /\ pc = "crawling"
    /\ \E b1 \in MarkupBodies, b2 \in MarkupBodies :
         LET r1 == DdgResults(<<>>, b1, max_results)
         IN  /\ Shortfall(r1, max_results)
             /\ results = StartpageResults(r1, b2, max_results)
             /\ lastResponse = Response("Startpage", 200, b2)
    /\ Shortfall(results, max_results)
    /\ requests = <<"DuckDuckGo", "Startpage", "SearX">>
    /\ outstanding = {"SearX"}
    /\ fetches = << Fetch("DuckDuckGo", FALSE, 200, TRUE),
                    Fetch("Startpage", FALSE, 200, TRUE) >>
    /\ returned = <<>>
    /\ envelope = NoEnvelope
    /\ exit_status = NotExited
    /\ exc = ""
    /\ calls = <<>>
    /\ reactor_started = TRUE

NextSearx ==
    \/ parse_searx
    \/ download_failed
    \/ spider_closed
    \/ main_output

SpecSearx == InitSearx /\ [][NextSearx]_vars

----------------------------------------------------------------------------
(* Properties *)

Range(seq) == { seq[i] : i \in DOMAIN seq }
Urls(res) == { res[i].url : i \in DOMAIN res }
DistinctUrls(res) == \A i, j \in DOMAIN res : i # j => res[i].url # res[j].url

\* the run has printed an envelope that carries results
Finished == pc = "exit" /\ "results" \in DOMAIN envelope
Parsed(p) == \E i \in DOMAIN fetches : fetches[i].provider = p /\ fetches[i].parsed
FirstProviderSources == {"DuckDuckGo", "DuckDuckGo-Simple", "DuckDuckGo-Fallback"}

\* a candidate that carries a title and a url and is no self-link
ValidCandidate(c) ==
    /\ Truthy(c.title) /\ strip(c.title) # <<>>
    /\ Truthy(c.url) /\ strip(c.url) # <<>>
    /\ ~Contains(c.url, DDG_DOMAIN)
ValidUrls(body) ==
    { strip(body[i].url) : i \in { k \in DOMAIN body : body[k].kind = "div"
                                                       /\ ValidCandidate(body[k]) } }

\* C1 (Cap): the results sequence a run returns never holds more than
\* max_results records, max_results = 0 and raising fetches included.
C1_Cap ==
    pc \in {"returned", "exit"} => Len(returned) <= max_results

\* C2 (Dedup): the url values of the results of a run are pairwise distinct,
\* so of two candidates that carry one url exactly one survives.
C2_Dedup ==
    DistinctUrls(results)

\* C3 (Fallback-on-failure): when the fetch of the first provider fails
\* entirely, the next provider is requested, the results come from the
\* second provider onward and the envelope carries no error field.
C3_FallbackOnFailure ==
    ( /\ pc = "exit"
      /\ fetches # <<>>
      /\ fetches[1].provider = "DuckDuckGo"
      /\ fetches[1].failed \/ ~IsSuccess(fetches[1].status) )
    => /\ "Startpage" \in Range(requests)
       /\ "error" \notin DOMAIN envelope
       /\ \A i \in DOMAIN envelope.results :
            envelope.results[i].source \in {"Startpage", "SearX"}

\* C4 (Priority-first-fill): when the first provider's response holds at
\* least max_results valid distinct candidates, at whatever positions, the
\* results hold exactly max_results records, all of the first provider, and
\* no lower-priority provider is requested.
C4_PriorityFirstFill ==
    ( /\ Parsed("DuckDuckGo")
      /\ lastResponse.provider = "DuckDuckGo"
      /\ IsSuccess(lastResponse.status)
      /\ Cardinality(ValidUrls(lastResponse.body)) >= max_results )
    => /\ Len(results) = max_results
       /\ \A i \in DOMAIN results : results[i].source \in FirstProviderSources
       /\ requests = <<"DuckDuckGo">>

\* C5 (Chain exhaustion): once DuckDuckGo and Startpage have both been
\* parsed and fewer than max_results records are held, SearX is requested.
C5_ChainExhaustion ==
    ( /\ Parsed("DuckDuckGo")
      /\ Parsed("Startpage")
      /\ Len(results) < max_results )
    => "SearX" \in Range(requests)

\* C6 (Zero budget): a run with max_results = 0 attempts no provider fetch
\* and ends with empty results and total = 0.
C6_ZeroBudget ==
    max_results = 0 =>
        /\ requests = <<>>
        /\ Finished => envelope.results = <<>> /\ envelope.total = 0

\* C7 (Empty success): when every fetch of a run fails or raises, the
\* envelope has empty results, total = 0 and no error field; no synthetic
\* record is placed in results.
C7_EmptySuccess ==
    ( /\ pc = "exit"
      /\ fetches # <<>>
      /\ \A i \in DOMAIN fetches : fetches[i].failed )
    => /\ "error" \notin DOMAIN envelope
       /\ envelope.results = <<>>
       /\ envelope.total = 0

\* the results the documented fill yields: the held records, then the new
\* valid candidates in discovery order until max records are held
RECURSIVE DedupFill(_, _, _)
DedupFill(res, cs, max) ==
    IF cs = <<>> \/ Len(res) >= max THEN res
    ELSE LET got == StartpageContainer(Head(cs))
         IN  IF got = <<>> \/ got[1].url \in Urls(res)
             THEN DedupFill(res, Tail(cs), max)
             ELSE DedupFill(res \o got, Tail(cs), max)

FirstProviderPrefix == SelectSeq(results, LAMBDA r : r.source = "DuckDuckGo")

\* C8 (Shortfall fill): when the first provider left k < max_results
\* distinct records and the second provider's response holds at least
\* max_results - k new valid candidates, the results are the first
\* provider's k records followed by the first max_results - k new urls of
\* the second provider; a skipped duplicate or invalid candidate takes no
\* slot.
C8_ShortfallFill ==
    ( /\ Parsed("Startpage")
      /\ lastResponse.provider = "Startpage"
      /\ DistinctUrls(FirstProviderPrefix)
      /\ Len(DedupFill(FirstProviderPrefix, Divs(lastResponse.body), max_results))
            = max_results )
    => results = DedupFill(FirstProviderPrefix, Divs(lastResponse.body), max_results)

\* C9 (Non-success status): a response with a non-success status is handled
\* as a fetch failure: no record in results is extracted from its body.
C9_NonSuccessIsFailure ==
    \A i \in DOMAIN fetches :
        (fetches[i].provider = "DuckDuckGo" /\ ~IsSuccess(fetches[i].status)) =>
            \A k \in DOMAIN results : results[k].source \notin FirstProviderSources

\* C10 (Parsers never raise): whatever the response body, the parse
\* callback returns normally; no exception leaves it.
C10_ParsersNeverRaise ==
    lastResponse.provider = "SearX" => exc = ""

\* the cleaning the parsers apply to a text field: strip, collapse every
\* whitespace run to one space, cut at n characters
Normalize(str, n) == PySlice(collapse(strip(str)), n)

ParsedSources == {"DuckDuckGo", "Startpage", "DuckDuckGo-Simple"}

\* C11 (Normalization idempotence): normalizing an already normalized title
\* or snippet with the same cap changes nothing, also when the character at
\* the cap is a space.
C11_NormalizeIdempotent ==
    \A i \in DOMAIN results :
        results[i].source \in ParsedSources =>
            /\ Normalize(results[i].title, TitleCap) = results[i].title
            /\ Normalize(results[i].snippet, SnippetCap) = results[i].snippet

\* C12 (Self-link filtering): no record of DuckDuckGo holds a url with
\* duckduckgo.com in it and no record of Startpage holds a url with
\* startpage.com in it.
C12_SelfLinkFiltering ==
    \A i \in DOMAIN results :
        /\ results[i].source \in FirstProviderSources
              => ~Contains(results[i].url, DDG_DOMAIN)
        /\ results[i].source = "Startpage"
              => ~Contains(results[i].url, STARTPAGE_DOMAIN)

\* C15 (Snippet fallback): a record whose candidate carried no snippet (no
\* snippet element, an empty text or a whitespace-only text) has the
\* normalized title as its snippet, so no record with a non-empty title has
\* an empty snippet.
C15_SnippetFallback ==
    \A i \in DOMAIN results :
        (results[i].source \in ParsedSources /\ results[i].title # <<>>)
            => results[i].snippet # <<>>

\* C16 (Url validity): no record has an empty url (a whitespace-only href
\* that is stripped to the empty string included) or a javascript:
\* pseudo-url.
C16_UrlValidity ==
    \A i \in DOMAIN results :
        /\ results[i].url # <<>>
        /\ ~StartsWith(results[i].url, SCRIPT_SCHEME)

\* C18 (Envelope shape): an emitted envelope either has total = len(results)
\* and no error field, or an error field and an empty results sequence; the
\* exit status is non-zero exactly when the envelope has an error field.
C18_EnvelopeShape ==
    pc = "exit" =>
        /\ \/ /\ "error" \notin DOMAIN envelope
              /\ "results" \in DOMAIN envelope
              /\ "total" \in DOMAIN envelope
              /\ envelope.total = Len(envelope.results)
           \/ /\ "error" \in DOMAIN envelope
              /\ "results" \in DOMAIN envelope
              /\ envelope.results = <<>>
        /\ (exit_status # 0) <=> ("error" \in DOMAIN envelope)

Priority(source) ==
    CASE source \in FirstProviderSources -> 1
      [] source = "Startpage" -> 2
      [] source = "SearX" -> 3
      [] OTHER -> 4

\* the records of a whole response in the order of its containers or links
Discovered(source, body) ==
    CASE source = "DuckDuckGo" -> DdgLoop(Divs(body))
      [] source = "Startpage" -> StartpageLoop(Divs(body))
      [] source = "DuckDuckGo-Simple" -> SimpleLoop(Divs(body))
      [] source = "DuckDuckGo-Fallback" -> FallbackLoop(<<>>, Links(body), Len(body) + 1)
      [] OTHER -> <<>>

\* sub can be read off full from left to right
RECURSIVE IsSubsequence(_, _)
IsSubsequence(sub, full) ==
    IF sub = <<>> THEN TRUE
    ELSE IF full = <<>> THEN FALSE
    ELSE IF Head(sub) = Head(full) THEN IsSubsequence(Tail(sub), Tail(full))
    ELSE IsSubsequence(sub, Tail(full))

SourcesOf(provider) ==
    IF provider = "DuckDuckGo" THEN FirstProviderSources ELSE {provider}

\* C13 (Discovery order): results is ordered by provider priority, and the
\* records of one provider stand in the order in which their candidates
\* appear in that provider's response; the returned list keeps that order.
C13_DiscoveryOrder ==
    /\ \A i, j \in DOMAIN results :
         i < j => Priority(results[i].source) <= Priority(results[j].source)
    /\ \A src \in SourcesOf(lastResponse.provider) :
         IsSubsequence(SelectSeq(results, LAMBDA r : r.source = src),
                       Discovered(src, lastResponse.body))
    /\ (Finished /\ requests # <<>>) => envelope.results = results

C13_Witness ==
    /\ Finished
    /\ Len(envelope.results) = 2
    /\ envelope.results[1].source = "DuckDuckGo"
    /\ envelope.results[2].source = "Startpage"
    /\ envelope.results[1].url # envelope.results[2].url

\* C14 (One provider at a time): at most one provider request is outstanding
\* in any state, and Startpage is requested only after the DuckDuckGo
\* response has been parsed and left fewer than max_results records.
C14_OneProviderAtATime ==
    /\ Cardinality(outstanding) <= 1
    /\ "Startpage" \in Range(requests) =>
          /\ Parsed("DuckDuckGo")
          /\ "DuckDuckGo" \notin outstanding
          /\ Len(FirstProviderPrefix) < max_results

C14_Witness ==
    /\ "Startpage" \in outstanding
    /\ results # <<>>

IsPrefix(a, b) == Len(a) <= Len(b) /\ SubSeq(b, 1, Len(a)) = a

\* C19 (Earlier results are never replaced): every step leaves the records
\* already in results at their index, unchanged, and a step that requests a
\* lower-priority provider leaves fewer than max_results records.
C19_NeverReplaced ==
    [][ /\ IsPrefix(results, results')
        /\ (Len(requests') > Len(requests)
            /\ requests'[Len(requests')] # "DuckDuckGo")
              => Len(results') < max_results ]_vars

C19_Witness ==
    /\ pc = "crawling"
    /\ Parsed("Startpage")
    /\ Len(results) = 2
    /\ results[1].source = "DuckDuckGo"
    /\ results[2].source = "Startpage"

\* the provider whose parser writes records with this source label
ProviderOf(source) ==
    CASE source \in {"DuckDuckGo", "DuckDuckGo-Simple"} -> "DuckDuckGo"
      [] source = "Startpage" -> "Startpage"
      [] source = "SearX" -> "SearX"
      [] OTHER -> "none"

\* every record the call returned was parsed from a response to one of the
\* call's own requests
OwnRecords(c) ==
    \A i \in DOMAIN c.returned :
        \E k \in DOMAIN c.fetches :
            /\ c.fetches[k].provider = ProviderOf(c.returned[i].source)
            /\ c.fetches[k].parsed

EndedCalls == IF pc = "returned" THEN Append(calls, CallRecord) ELSE calls

\* C17: of two aggregation calls made one after the other in one process,
\* each returns only records parsed from responses to its own requests,
\* and no more of them than its own max_results.
C17_CallIsolation ==
    Len(EndedCalls) >= 2 =>
        \A i \in DOMAIN EndedCalls :
            /\ OwnRecords(EndedCalls[i])
            /\ Len(EndedCalls[i].returned) <= EndedCalls[i].max_results

\* Responses and failures are delivered, the idle spider is closed and main
\* runs on: no enabled step of the run is postponed forever.
SpecFair == Spec /\ WF_vars(Next)

ProviderRank(p) ==
    CASE p = "DuckDuckGo" -> 1
      [] p = "Startpage" -> 2
      [] OTHER -> 3

====
